---- MODULE Spec2Model ----
(***************************************************************************)
(* A model of fastapi-app/main.py: the to-do resource handlers over the    *)
(* JSON file todo.json, and the two http middlewares wrapped around them.  *)
(*                                                                         *)
(* The sync handlers (def, not async def) run on worker threads, so a      *)
(* handler's load_todos and save_todos are separate steps, and save_todos  *)
(* itself is two steps: open(TODO_FILE, "w") truncates the file, and the   *)
(* buffered json.dump reaches the file when the with-block closes it.      *)
(* Spec runs one request at a time; SpecConc runs two side by side.        *)
(***************************************************************************)
EXTENDS Integers, Sequences, FiniteSets, TLC

\* Longest collection a create is admitted on.
MaxItems == 3

\* Request slots (worker threads).
Procs == {1, 2}

(***************************************************************************)
(* Data: TodoItem, request bodies, the file                                *)
(***************************************************************************)

\* class TodoItem: the fields without a default.
RequiredFields == {"id", "title", "description", "completed"}

\* priority: Literal["high", "none"]
PriorityLiteral == {"high", "none"}

\* priority: ... = "none"
PriorityDefault == "none"

\* JSON bodies sent to POST and PUT that satisfy the schema. A body is a
\* function from the keys it holds to their values.
ValidBodies ==
    { [id |-> 1, title |-> "a", description |-> "", completed |-> FALSE],
      [id |-> 1, title |-> "b", description |-> "u", completed |-> TRUE,
       priority |-> "high"],
      [id |-> 2, title |-> "a", description |-> "u", completed |-> FALSE,
       priority |-> "none"],
      [id |-> 2, title |-> "b", description |-> "", completed |-> TRUE,
       priority |-> "high"] }

\* Bodies that do not: required fields missing (the body of
\* test_create_todo_invalid), and a priority outside the Literal.
InvalidBodies ==
    { [id |-> 1, title |-> "a"],
      [id |-> 1, title |-> "a", description |-> "u", completed |-> FALSE,
       priority |-> "low"] }

Bodies == ValidBodies \cup InvalidBodies

\* No body (GET, DELETE).
NoBody == [x \in {} |-> 0]

\* Path ids.
Ids == {1, 2}

\* The user query parameter: Optional[str] = None.
NoUser == [given |-> FALSE, value |-> ""]
Users == {NoUser} \cup { [given |-> TRUE, value |-> v] : v \in {"", "u", "v"} }

\* Mutant: priority declared str, any string passes.
TodoItem_valid_any_priority(body) ==
    RequiredFields \subseteq DOMAIN body

\* Pydantic's validation of a body against TodoItem.
TodoItem_valid(body) ==
    /\ RequiredFields \subseteq DOMAIN body
    /\ "priority" \in DOMAIN body => body["priority"] \in PriorityLiteral

\* TodoItem(**body).model_dump(): the five fields, priority defaulted.
model_dump(body) ==
    [ id          |-> body["id"],
      title       |-> body["title"],
      description |-> body["description"],
      completed   |-> body["completed"],
      priority    |-> IF "priority" \in DOMAIN body THEN body["priority"]
                      ELSE PriorityDefault ]

\* Mutant: setdefault in place of update, the stored values win.
dict_update_keep(todo, other) ==
    [ k \in DOMAIN todo \cup DOMAIN other |->
        IF k \in DOMAIN todo THEN todo[k] ELSE other[k] ]

\* dict.update: the keys of `other` overwrite, the rest stay.
dict_update(todo, other) ==
    [ k \in DOMAIN todo \cup DOMAIN other |->
        IF k \in DOMAIN other THEN other[k] ELSE todo[k] ]

\* Number of characters json.dump(todos, file, indent=4) writes.
RECURSIVE ItemsLen(_)
ItemsLen(todos) ==
    IF todos = <<>> THEN 0
    ELSE LET t == Head(todos)
         IN  125 + 1 + Len(t.title) + Len(t.description)
                 + (IF t.completed THEN 4 ELSE 5)
                 + ItemsLen(Tail(todos))

json_dump_len(todos) ==
    IF todos = <<>> THEN 2
    ELSE 2 + ItemsLen(todos) + 2 * (Len(todos) - 1) + 2

\* todo.json: absent, a JSON array, empty (truncated by open "w"), or
\* bytes that json.load rejects. size is its length in characters.
FileAbsent    == [state |-> "absent",    todos |-> <<>>, size |-> 0]
FileTruncated == [state |-> "truncated", todos |-> <<>>, size |-> 0]
FileJson(todos) ==
    [state |-> "json", todos |-> todos, size |-> json_dump_len(todos)]
FileCorrupt(n) == [state |-> "corrupt", todos |-> <<>>, size |-> n]

\* The file after a writer that opened it earlier writes `todos` at offset 0
\* and closes: its characters replace the first ones of whatever the file
\* holds by then; a longer tail written by someone else in between stays.
file_write(f, todos) ==
    IF json_dump_len(todos) >= f.size
    THEN FileJson(todos)
    ELSE FileCorrupt(f.size)

(***************************************************************************)
(* The middleware stack                                                    *)
(***************************************************************************)

\* The http middlewares in the order main.py registers them:
\* @app.middleware("http") log_requests, Instrumentator().instrument(app),
\* @app.middleware("http") add_influxdb_middleware.
Registered == <<"log_requests", "instrumentator", "add_influxdb_middleware">>

\* Mutant: the new middleware goes to the back of user_middleware.
add_middleware_append(stack, m) == stack \o <<m>>

\* app.middleware("http")(f) is add_middleware, which puts the new
\* middleware at the front of user_middleware: user_middleware.insert(0, m).
add_middleware(stack, m) == <<m>> \o stack

\* user_middleware once the module is imported; element 1 is the outermost
\* stage, the one a request enters first and leaves last.
RECURSIVE register(_, _)
register(stack, ms) ==
    IF ms = <<>> THEN stack
    ELSE register(add_middleware(stack, Head(ms)), Tail(ms))

user_middleware == register(<<>>, Registered)

Event(stage, what) == [stage |-> stage, what |-> what]

\* What a stage does before `await call_next(request)`.
stage_before(stage, tr) ==
    IF stage \in {"log_requests", "add_influxdb_middleware"}
    THEN Append(tr, Event(stage, "start_time"))
    ELSE tr

\* log_requests after call_next: one line to custom_logger (the Loki queue).
log_requests_after(tr) == Append(tr, Event("log_requests", "log_line"))

\* add_influxdb_middleware after call_next: write_api.write of the
\* http_requests point; when it raises, the except branch prints.
add_influxdb_after(tr, ok) ==
    IF ok
    THEN Append(tr, Event("add_influxdb_middleware", "point"))
    ELSE tr \o << Event("add_influxdb_middleware", "write_failed"),
                  Event("add_influxdb_middleware", "print") >>

stage_after(stage, tr, ok) ==
    CASE stage = "log_requests"            -> log_requests_after(tr)
      [] stage = "add_influxdb_middleware" -> add_influxdb_after(tr, ok)
      [] OTHER                             -> tr

\* create_todo's business_events write: try ... except: pass.
create_event(tr, ok) ==
    IF ok
    THEN Append(tr, Event("create_todo", "point"))
    ELSE Append(tr, Event("create_todo", "write_failed"))

(***************************************************************************)
(* Requests and responses                                                  *)
(***************************************************************************)

Request(method, id, user, body) ==
    [method |-> method, id |-> id, user |-> user, body |-> body]

Requests ==
    { Request("GET", 0, u, NoBody) : u \in Users }
    \cup { Request("POST", 0, NoUser, b) : b \in Bodies }
    \cup { Request("PUT", i, NoUser, b) : i \in Ids, b \in Bodies }
    \cup { Request("DELETE", i, NoUser, NoBody) : i \in Ids }

NoRequest == Request("", 0, NoUser, NoBody)

Response(status, items, msg) ==
    [status |-> status, items |-> items, msg |-> msg]

NoResponse == Response(0, <<>>, "")

\* 422 from the request validation, before the handler is called.
Unprocessable == Response(422, <<>>, "validation error")

\* raise HTTPException(status_code=404, detail="To-Do item not found")
NotFound == Response(404, <<>>, "To-Do item not found")

\* return {"message": "To-Do item deleted"}
Deleted == Response(200, <<>>, "To-Do item deleted")

\* An exception no handler catches (json.load on a bad file).
ServerError == Response(500, <<>>, "Internal Server Error")

\* A 200 carrying one TodoItem (response_model=TodoItem).
ItemResponse(body) == Response(200, <<model_dump(body)>>, "")

\* A 200 carrying a list (response_model=list[TodoItem]).
ListResponse(items) == Response(200, items, "")

(***************************************************************************)
(* The handlers' computations                                              *)
(***************************************************************************)

\* Mutant: no os.path.exists test, open raises on an absent file.
load_ok_no_exists_test(f) == f.state = "json"

\* load_todos(): [] when the file does not exist, else json.load.
load_ok(f) == f.state \in {"absent", "json"}

load_result(f) == IF f.state = "json" THEN f.todos ELSE <<>>

\* [todo for todo in s if todo[key] == val], and with != below.
RECURSIVE keep_eq(_, _, _)
keep_eq(s, key, val) ==
    IF s = <<>> THEN <<>>
    ELSE IF Head(s)[key] = val
         THEN <<Head(s)>> \o keep_eq(Tail(s), key, val)
         ELSE keep_eq(Tail(s), key, val)

RECURSIVE keep_ne(_, _, _)
keep_ne(s, key, val) ==
    IF s = <<>> THEN <<>>
    ELSE IF Head(s)[key] # val
         THEN <<Head(s)>> \o keep_ne(Tail(s), key, val)
         ELSE keep_ne(Tail(s), key, val)

\* `if user:` - None and "" are both falsy.
user_truthy(user) == user.given /\ user.value # ""

\* get_todos
get_result(todos, user) ==
    IF user_truthy(user)
    THEN keep_eq(todos, "description", user.value)
    ELSE todos

\* Mutant: insert(0, ...) in place of append.
create_result_front(todos, body) == <<model_dump(body)>> \o todos

\* create_todo: todos.append(todo.model_dump())
create_result(todos, body) == Append(todos, model_dump(body))

\* update_todo's loop: the index of the first todo with todo["id"] == todo_id,
\* 0 when the loop falls through.
first_match(todos, todo_id) ==
    IF \E i \in 1..Len(todos) : todos[i].id = todo_id
    THEN CHOOSE i \in 1..Len(todos) :
            /\ todos[i].id = todo_id
            /\ \A j \in 1..(i - 1) : todos[j].id # todo_id
    ELSE 0

\* Mutant: the loop does not stop at the first match.
update_result_all(todos, todo_id, body) ==
    [ i \in 1..Len(todos) |->
        IF todos[i].id = todo_id
        THEN dict_update(todos[i], model_dump(body))
        ELSE todos[i] ]

\* update_todo: todo.update(updated_todo.model_dump()) on that todo.
update_result(todos, todo_id, body) ==
    LET i == first_match(todos, todo_id)
    IN  [todos EXCEPT ![i] = dict_update(@, model_dump(body))]

\* Mutant: scan and stop, only the first match is removed.
delete_result_first(todos, todo_id) ==
    LET i == first_match(todos, todo_id)
    IN  IF i = 0 THEN todos
        ELSE SubSeq(todos, 1, i - 1) \o SubSeq(todos, i + 1, Len(todos))

\* delete_todo: [todo for todo in todos if todo["id"] != todo_id]
delete_result(todos, todo_id) == keep_ne(todos, "id", todo_id)

(***************************************************************************)
(* State                                                                   *)
(***************************************************************************)

VARIABLES
    file,    \* todo.json
    pc,      \* pc[p]: where request slot p stands
    req,     \* req[p]: the request slot p is serving (or served last)
    depth,   \* depth[p]: how many middleware stages the request is inside
    todos,   \* todos[p]: the handler's local variable `todos`
    resp,    \* resp[p]: the response, once there is one
    trace,   \* trace[p]: what the stages and the handler did to the sinks
             \*   (Loki queue, InfluxDB, stdout) for this request, in order
    pre,     \* pre[p]: todo.json when the request arrived (history)
    prev,    \* prev[p]: the request slot p completed before this one,
             \*   with its outcome (history)
    journal  \* the loads, opens and writes of todo.json by the requests
             \*   in flight together, in the order they happened (history)

vars == <<file, pc, req, depth, todos, resp, trace, pre, prev, journal>>

\* A journal entry: slot p did `op` ("load", "open", "write") on todo.json.
Io(p, op) == [slot |-> p, op |-> op]

\* What prev keeps of a completed request: of a POST answered 200 its body
\* and the collection before it, of a DELETE its id and the collection
\* before it, of any other request nothing.
NoPrev ==
    [method |-> "", id |-> 0, body |-> NoBody, status |-> 0, msg |-> "",
     before |-> <<>>]

Completed(r, response, before) ==
    CASE r.method = "POST" /\ response.status = 200 ->
            [method |-> "POST", id |-> 0, body |-> r.body,
             status |-> 200, msg |-> response.msg, before |-> before]
      [] r.method = "DELETE" ->
            [method |-> "DELETE", id |-> r.id, body |-> NoBody,
             status |-> response.status, msg |-> response.msg,
             before |-> before]
      [] OTHER -> NoPrev

Init ==
    /\ file  = FileAbsent
    /\ pc    = [p \in Procs |-> "idle"]
    /\ req   = [p \in Procs |-> NoRequest]
    /\ depth = [p \in Procs |-> 0]
    /\ todos = [p \in Procs |-> <<>>]
    /\ resp  = [p \in Procs |-> NoResponse]
    /\ trace = [p \in Procs |-> <<>>]
    /\ pre   = [p \in Procs |-> FileAbsent]
    /\ prev  = [p \in Procs |-> NoPrev]
    /\ journal = <<>>

\* POSTs that have arrived and not yet written.
PendingCreates ==
    Cardinality({ q \in Procs :
        /\ req[q].method = "POST"
        /\ pc[q] \in {"down", "route", "load", "loaded", "write"} })

(***************************************************************************)
(* Actions                                                                 *)
(***************************************************************************)

\* A request arrives on a free slot.
Receive(p, r) ==
    /\ pc[p] \in {"idle", "done"}
    /\ r.method = "POST" => Len(file.todos) + PendingCreates < MaxItems
    /\ req'   = [req EXCEPT ![p] = r]
    /\ pc'    = [pc EXCEPT ![p] = "down"]
    /\ depth' = [depth EXCEPT ![p] = 0]
    /\ todos' = [todos EXCEPT ![p] = <<>>]
    /\ resp'  = [resp EXCEPT ![p] = NoResponse]
    /\ trace' = [trace EXCEPT ![p] = <<>>]
    /\ pre'   = [pre EXCEPT ![p] = file]
    /\ journal' = IF \A q \in Procs \ {p} : pc[q] \in {"idle", "done"}
                  THEN <<>>
                  ELSE SelectSeq(journal, LAMBDA e : e.slot # p)
    /\ prev' = [prev EXCEPT ![p] =
                  IF pc[p] = "done"
                  THEN Completed(req[p], resp[p], pre[p].todos)
                  ELSE NoPrev]
    /\ UNCHANGED file

\* The request enters the next stage of user_middleware: the stage runs up
\* to its `await call_next(request)`. Past the innermost stage lies the
\* router.
Enter(p) ==
    /\ pc[p] = "down"
    /\ depth[p] < Len(user_middleware)
    /\ LET stage == user_middleware[depth[p] + 1]
       IN  trace' = [trace EXCEPT ![p] = stage_before(stage, @)]
    /\ depth' = [depth EXCEPT ![p] = @ + 1]
    /\ pc' = [pc EXCEPT ![p] =
                IF depth[p] + 1 = Len(user_middleware) THEN "route" ELSE "down"]
    /\ UNCHANGED <<file, req, todos, resp, pre, prev, journal>>

\* The router validates the body of a POST or PUT against TodoItem and only
\* then calls the handler; a body that fails is answered 422.
Route(p) ==
    /\ pc[p] = "route"
    /\ IF req[p].method \in {"POST", "PUT"} /\ ~TodoItem_valid(req[p].body)
       THEN /\ resp' = [resp EXCEPT ![p] = Unprocessable]
            /\ pc' = [pc EXCEPT ![p] = "up"]
       ELSE /\ pc' = [pc EXCEPT ![p] = "load"]
            /\ UNCHANGED resp
    /\ UNCHANGED <<file, req, depth, todos, trace, pre, prev, journal>>

\* todos = load_todos(), the first statement of every handler. json.load
\* raises on a file it cannot parse; nothing catches that, neither stage gets
\* a response back from call_next, and the client is answered 500.
load_todos(p) ==
    /\ pc[p] = "load"
    /\ IF load_ok(file)
       THEN /\ todos' = [todos EXCEPT ![p] = load_result(file)]
            /\ pc' = [pc EXCEPT ![p] = "loaded"]
            /\ UNCHANGED <<resp, depth>>
       ELSE /\ resp' = [resp EXCEPT ![p] = ServerError]
            /\ pc' = [pc EXCEPT ![p] = "done"]
            /\ depth' = [depth EXCEPT ![p] = 0]
            /\ UNCHANGED todos
    /\ journal' = Append(journal, Io(p, "load"))
    /\ UNCHANGED <<file, req, trace, pre, prev>>

\* get_todos after the load.
get_todos(p) ==
    /\ pc[p] = "loaded"
    /\ req[p].method = "GET"
    /\ resp' = [resp EXCEPT ![p] = ListResponse(get_result(todos[p], req[p].user))]
    /\ pc' = [pc EXCEPT ![p] = "up"]
    /\ UNCHANGED <<file, req, depth, todos, trace, pre, prev, journal>>

\* Mutant: mode "r+", the file keeps what it holds.
open_w_keep(f) == IF f.state = "absent" THEN FileTruncated ELSE f

\* open(TODO_FILE, "w") in save_todos: the file exists and is empty.
open_w(f) == FileTruncated

\* create_todo from the append up to save_todos' open.
create_todo(p) ==
    /\ pc[p] = "loaded"
    /\ req[p].method = "POST"
    /\ todos' = [todos EXCEPT ![p] = create_result(@, req[p].body)]
    /\ file' = open_w(file)
    /\ journal' = Append(journal, Io(p, "open"))
    /\ pc' = [pc EXCEPT ![p] = "write"]
    /\ UNCHANGED <<req, depth, resp, trace, pre, prev>>

\* update_todo after the load: the loop; on a match the update and
\* save_todos' open, else the HTTPException.
update_todo(p) ==
    /\ pc[p] = "loaded"
    /\ req[p].method = "PUT"
    /\ IF first_match(todos[p], req[p].id) # 0
       THEN /\ todos' = [todos EXCEPT ![p] =
                            update_result(@, req[p].id, req[p].body)]
            /\ file' = open_w(file)
            /\ journal' = Append(journal, Io(p, "open"))
            /\ pc' = [pc EXCEPT ![p] = "write"]
            /\ UNCHANGED resp
       ELSE /\ resp' = [resp EXCEPT ![p] = NotFound]
            /\ pc' = [pc EXCEPT ![p] = "up"]
            /\ UNCHANGED <<todos, file, journal>>
    /\ UNCHANGED <<req, depth, trace, pre, prev>>

\* delete_todo after the load: the filter and save_todos' open.
delete_todo(p) ==
    /\ pc[p] = "loaded"
    /\ req[p].method = "DELETE"
    /\ todos' = [todos EXCEPT ![p] = delete_result(@, req[p].id)]
    /\ file' = open_w(file)
    /\ journal' = Append(journal, Io(p, "open"))
    /\ pc' = [pc EXCEPT ![p] = "write"]
    /\ UNCHANGED <<req, depth, resp, trace, pre, prev>>

\* The rest of save_todos: json.dump and the close that flushes it. update
\* and delete return right after it; create goes on to its event.
save_todos(p) ==
    /\ pc[p] = "write"
    /\ file' = file_write(file, todos[p])
    /\ journal' = Append(journal, Io(p, "write"))
    /\ CASE req[p].method = "POST" ->
              /\ pc' = [pc EXCEPT ![p] = "event"]
              /\ UNCHANGED resp
         [] req[p].method = "PUT" ->
              /\ pc' = [pc EXCEPT ![p] = "up"]
              /\ resp' = [resp EXCEPT ![p] = ItemResponse(req[p].body)]
         [] OTHER ->
              /\ pc' = [pc EXCEPT ![p] = "up"]
              /\ resp' = [resp EXCEPT ![p] = Deleted]
    /\ UNCHANGED <<req, depth, todos, trace, pre, prev>>

\* create_todo after save_todos: the business_events write, which succeeds
\* or raises (sink: the outcomes the sink may give), and `return todo`.
create_todo_event(p, sink) ==
    /\ pc[p] = "event"
    /\ \E ok \in sink :
          trace' = [trace EXCEPT ![p] = create_event(@, ok)]
    /\ resp' = [resp EXCEPT ![p] = ItemResponse(req[p].body)]
    /\ pc' = [pc EXCEPT ![p] = "up"]
    /\ UNCHANGED <<file, req, depth, todos, pre, prev, journal>>

\* The response passes back through the innermost stage not yet left: the
\* stage runs from its call_next to its `return response`. The sink write of
\* add_influxdb_middleware succeeds or raises.
Leave(p, sink) ==
    /\ pc[p] = "up"
    /\ depth[p] > 0
    /\ \E ok \in sink :
          trace' = [trace EXCEPT ![p] =
                       stage_after(user_middleware[depth[p]], @, ok)]
    /\ depth' = [depth EXCEPT ![p] = @ - 1]
    /\ pc' = [pc EXCEPT ![p] = IF depth[p] = 1 THEN "done" ELSE "up"]
    /\ UNCHANGED <<file, req, todos, resp, pre, prev, journal>>

Step(p, sink) ==
    \/ Enter(p)
    \/ Route(p)
    \/ load_todos(p)
    \/ get_todos(p)
    \/ create_todo(p)
    \/ update_todo(p)
    \/ delete_todo(p)
    \/ save_todos(p)
    \/ create_todo_event(p, sink)
    \/ Leave(p, sink)

\* One request at a time, on slot 1; the sinks are up or down.
Next ==
    \/ \E r \in Requests : Receive(1, r)
    \/ Step(1, BOOLEAN)

Spec == Init /\ [][Next]_vars

\* The collections the concurrent runs start from: todo.json absent, or
\* holding up to MaxItems - 2 items that creates have stored.
StoredItems == { model_dump(b) : b \in ValidBodies }

RECURSIVE SeqsUpTo(_, _)
SeqsUpTo(S, n) ==
    IF n = 0 THEN {<<>>}
    ELSE LET shorter == SeqsUpTo(S, n - 1)
         IN  shorter \cup { Append(s, x) : s \in shorter, x \in S }

InitConc ==
    /\ file \in {FileAbsent} \cup
                { FileJson(s) : s \in SeqsUpTo(StoredItems, MaxItems - 2) }
    /\ pc    = [p \in Procs |-> "idle"]
    /\ req   = [p \in Procs |-> NoRequest]
    /\ depth = [p \in Procs |-> 0]
    /\ todos = [p \in Procs |-> <<>>]
    /\ resp  = [p \in Procs |-> NoResponse]
    /\ trace = [p \in Procs |-> <<>>]
    /\ pre   = [p \in Procs |-> FileAbsent]
    /\ prev  = [p \in Procs |-> NoPrev]
    /\ journal = <<>>

\* The requests the concurrent runs draw from: the mutating ones with a
\* valid body, and the plain listing.
ConcRequests ==
    { r \in Requests :
        /\ r.user = NoUser
        /\ r.body \in {NoBody} \cup ValidBodies }

\* Two requests side by side, one per slot, the sinks up: any slot may step
\* whenever it can.
NextConc ==
    \/ \E p \in Procs : \E r \in ConcRequests :
          pc[p] = "idle" /\ Receive(p, r)
    \/ \E p \in Procs : Step(p, {TRUE})

SpecConc == InitConc /\ [][NextConc]_vars

(***************************************************************************)
(* Properties                                                              *)
(***************************************************************************)

\* Slot p has answered its request.
Done(p) == pc[p] = "done"

\* `item` carries exactly the values of body b, priority "none" when b has
\* none.
ItemIs(item, b) ==
    /\ DOMAIN item = {"id", "title", "description", "completed", "priority"}
    /\ item.id = b["id"]
    /\ item.title = b["title"]
    /\ item.description = b["description"]
    /\ item.completed = b["completed"]
    /\ item.priority = IF "priority" \in DOMAIN b THEN b["priority"] ELSE "none"

\* The body satisfies the TodoItem schema.
SchemaOk(b) ==
    /\ \A k \in {"id", "title", "description", "completed"} : k \in DOMAIN b
    /\ "priority" \in DOMAIN b => b["priority"] \in {"high", "none"}

\* The positions of s holding an item with this id.
Matches(s, id) == { i \in 1..Len(s) : s[i].id = id }

\* The least of a non-empty set of positions.
Least(S) == CHOOSE i \in S : \A j \in S : i <= j

\* C1: a PUT with a valid body on a collection with no item of the path id
\* is answered 404 and leaves todo.json as it was; on a collection with such
\* an item it is answered 200 with the body's values, and the matched item
\* holds the body's values afterwards.
C1_PutAbsentOrPresent ==
    \A p \in Procs :
        (Done(p) /\ req[p].method = "PUT" /\ SchemaOk(req[p].body)) =>
            LET S == pre[p].todos
                M == Matches(S, req[p].id)
            IN  IF M = {}
                THEN /\ resp[p].status = 404
                     /\ file = pre[p]
                     /\ \A i \in 1..Len(journal) : journal[i].op = "load"
                ELSE /\ resp[p].status = 200
                     /\ Len(resp[p].items) = 1
                     /\ ItemIs(resp[p].items[1], req[p].body)
                     /\ file.state = "json"
                     /\ Len(file.todos) = Len(S)
                     /\ ItemIs(file.todos[Least(M)], req[p].body)

\* C1's case: a PUT answered 404 on a collection that holds items.
C1_Witness ==
    \E p \in Procs :
        /\ Done(p) /\ req[p].method = "PUT" /\ SchemaOk(req[p].body)
        /\ resp[p].status = 404
        /\ Len(pre[p].todos) >= 2
        /\ file = pre[p]

\* C9: a PUT answered 200 replaces only the first item with the path id:
\* the length stays, and every other position, later items with the same
\* id included, holds what it held.
C9_PutFirstMatchOnly ==
    \A p \in Procs :
        (Done(p) /\ req[p].method = "PUT" /\ resp[p].status = 200) =>
            LET S == pre[p].todos
                k == Least(Matches(S, req[p].id))
            IN  /\ file.state = "json"
                /\ Len(file.todos) = Len(S)
                /\ \A i \in 1..Len(S) : i # k => file.todos[i] = S[i]
                /\ ItemIs(file.todos[k], req[p].body)

\* C9's case: two stored items had the path id, the body differs from
\* both, and the later one is still what it was.
C9_Witness ==
    \E p \in Procs :
        /\ Done(p) /\ req[p].method = "PUT" /\ resp[p].status = 200
        /\ \E i, j \in Matches(pre[p].todos, req[p].id) :
              /\ i < j
              /\ ~ItemIs(pre[p].todos[i], req[p].body)
              /\ ~ItemIs(pre[p].todos[j], req[p].body)
              /\ file.todos[j] = pre[p].todos[j]
              /\ file.todos[i] # pre[p].todos[i]

\* C2: a DELETE is answered 200 "To-Do item deleted" whether or not an item
\* has the id, leaves exactly the items with another id, and the same DELETE
\* issued again leaves todo.json as the first left it and is answered alike.
C2_DeleteIdempotent ==
    \A p \in Procs :
        (Done(p) /\ req[p].method = "DELETE") =>
            /\ resp[p].status = 200
            /\ resp[p].msg = "To-Do item deleted"
            /\ file.state = "json"
            /\ file.todos =
                  SelectSeq(pre[p].todos, LAMBDA t : t.id # req[p].id)
            /\ (prev[p].method = "DELETE" /\ prev[p].id = req[p].id) =>
                  /\ file = pre[p]
                  /\ resp[p].status = prev[p].status
                  /\ resp[p].msg = prev[p].msg

\* C2's case: the second of two equal DELETEs, the first of which removed
\* several items with the id and left others.
C2_Witness ==
    \E p \in Procs :
        /\ Done(p) /\ req[p].method = "DELETE"
        /\ prev[p].method = "DELETE" /\ prev[p].id = req[p].id
        /\ Cardinality(Matches(prev[p].before, req[p].id)) >= 2
        /\ Len(file.todos) >= 1

\* C3: a GET without user that directly follows a POST answered 200 returns
\* the collection as it was before the POST, in order, followed by the
\* posted item (priority "none" when the body had none).
C3_PostThenGet ==
    \A p \in Procs :
        (/\ Done(p) /\ req[p].method = "GET" /\ ~req[p].user.given
         /\ prev[p].method = "POST" /\ prev[p].status = 200) =>
            LET out == resp[p].items
                n   == Len(prev[p].before)
            IN  /\ resp[p].status = 200
                /\ Len(out) = n + 1
                /\ SubSeq(out, 1, n) = prev[p].before
                /\ ItemIs(out[n + 1], prev[p].body)

\* C3's case: the POST had no priority and its id was already stored.
C3_Witness ==
    \E p \in Procs :
        /\ Done(p) /\ req[p].method = "GET" /\ ~req[p].user.given
        /\ prev[p].method = "POST" /\ prev[p].status = 200
        /\ "priority" \notin DOMAIN prev[p].body
        /\ Matches(prev[p].before, prev[p].body["id"]) # {}
        /\ resp[p].items[Len(resp[p].items)].priority = "none"

\* C4: GET /todos?user=X returns exactly the stored items whose description
\* is X, in stored order, for every string X, the empty string included;
\* without user it returns the stored collection.
C4_ListFilter ==
    \A p \in Procs :
        (Done(p) /\ req[p].method = "GET") =>
            /\ resp[p].status = 200
            /\ resp[p].items =
                  IF req[p].user.given
                  THEN SelectSeq(pre[p].todos,
                                 LAMBDA t : t.description = req[p].user.value)
                  ELSE pre[p].todos

\* C4 for a user that is not the empty string, and for no user.
C4_ListFilterNonEmpty ==
    \A p \in Procs :
        (Done(p) /\ req[p].method = "GET" /\
         ~(req[p].user.given /\ req[p].user.value = "")) =>
            /\ resp[p].status = 200
            /\ resp[p].items =
                  IF req[p].user.given
                  THEN SelectSeq(pre[p].todos,
                                 LAMBDA t : t.description = req[p].user.value)
                  ELSE pre[p].todos

\* C5: a POST whose body does not satisfy the schema is answered 422 and
\* leaves todo.json as it was; todo.json is neither loaded nor opened for
\* it at any point of the request.
C5_InvalidPostRejected ==
    \A p \in Procs :
        (req[p].method = "POST" /\ ~SchemaOk(req[p].body)) =>
            /\ file = pre[p]
            /\ \A i \in 1..Len(journal) : journal[i].slot # p
            /\ Done(p) => resp[p].status = 422

\* C5's case: the body of test_create_todo_invalid, answered, on a
\* collection that holds items.
C5_Witness ==
    \E p \in Procs :
        /\ Done(p) /\ req[p].method = "POST"
        /\ DOMAIN req[p].body = {"id", "title"}
        /\ resp[p].status = 422
        /\ Len(file.todos) >= 1

\* The sink writes of the request that raised.
Failures(tr) == { i \in 1..Len(tr) : tr[i].what = "write_failed" }

\* Every sink write that raised is followed by the print of its except
\* branch.
C6_FailureLogged ==
    \A p \in Procs :
        Done(p) =>
            \A i \in Failures(trace[p]) :
                /\ i < Len(trace[p])
                /\ trace[p][i + 1].what = "print"
                /\ trace[p][i + 1].stage = trace[p][i].stage

\* The response and todo.json a request ends with, from the request and the
\* todo.json it found alone.
Outcome(r, f) ==
    LET S == load_result(f)
    IN  CASE r.method \in {"POST", "PUT"} /\ ~TodoItem_valid(r.body) ->
                [resp |-> Unprocessable, file |-> f]
          [] r.method = "GET" ->
                [resp |-> ListResponse(get_result(S, r.user)), file |-> f]
          [] r.method = "POST" ->
                [resp |-> ItemResponse(r.body),
                 file |-> FileJson(create_result(S, r.body))]
          [] r.method = "PUT" /\ first_match(S, r.id) = 0 ->
                [resp |-> NotFound, file |-> f]
          [] r.method = "PUT" ->
                [resp |-> ItemResponse(r.body),
                 file |-> FileJson(update_result(S, r.id, r.body))]
          [] OTHER ->
                [resp |-> Deleted, file |-> FileJson(delete_result(S, r.id))]

\* The response and the stored collection are the same whether the sink
\* writes of the request succeeded or raised.
C6_ResponseUnaffected ==
    \A p \in Procs :
        Done(p) =>
            /\ resp[p] = Outcome(req[p], pre[p]).resp
            /\ file = Outcome(req[p], pre[p]).file

\* C6: whether the sink write of the metrics stage and, for a POST, the
\* business-event write of create succeed or raise, the failure is caught
\* and logged to the local diagnostic channel, and the response and the
\* stored collection are the same in both cases.
C6_SinkFailureLoggedAndHarmless ==
    C6_FailureLogged /\ C6_ResponseUnaffected

\* C8: with todo.json absent, the load gives an empty collection: GET is
\* answered 200 with [], and the file is still absent afterwards.
C8_LoadAbsent ==
    \A p \in Procs :
        (req[p].method = "GET" /\ pre[p].state = "absent") =>
            /\ file.state = "absent"
            /\ pc[p] \in {"loaded", "up", "done"} => todos[p] = <<>>
            /\ Done(p) => (resp[p].status = 200 /\ resp[p].items = <<>>)

\* C8's case: a GET answered on a store never written.
C8_Witness ==
    \E p \in Procs :
        /\ Done(p) /\ req[p].method = "GET" /\ pre[p].state = "absent"
        /\ resp[p].status = 200
        /\ \A i \in 1..Len(journal) : journal[i].op = "load"
        /\ journal # <<>>

\* The positions of tr at which `stage` did `what`.
At(tr, stage, what) ==
    { i \in 1..Len(tr) : tr[i].stage = stage /\ tr[i].what = what }

\* Everything in A is before everything in B.
Before(A, B) == \A i \in A : \A j \in B : i < j

\* What the metrics stage does after call_next, either way the write goes.
MetricsEmit(tr) ==
    At(tr, "add_influxdb_middleware", "point")
        \cup At(tr, "add_influxdb_middleware", "write_failed")

\* C10: the logging stage records its start time before the metrics stage
\* does, and on the way back the metrics stage emits its point before the
\* logging stage emits its line (logging outer, metrics inner).
C10_LoggingOuter ==
    \A p \in Procs :
        /\ Before(At(trace[p], "log_requests", "start_time"),
                  At(trace[p], "add_influxdb_middleware", "start_time"))
        /\ Before(MetricsEmit(trace[p]),
                  At(trace[p], "log_requests", "log_line"))
        /\ At(trace[p], "add_influxdb_middleware", "start_time") # {} =>
              At(trace[p], "log_requests", "start_time") # {}

\* C10 as the code has it: the metrics stage is the outer wrapper. It
\* records its start time first, the logging stage after it; on the way
\* back the logging stage emits its line before the metrics stage writes
\* its point.
C10_MetricsOuter ==
    \A p \in Procs :
        /\ Before(At(trace[p], "add_influxdb_middleware", "start_time"),
                  At(trace[p], "log_requests", "start_time"))
        /\ Before(At(trace[p], "log_requests", "log_line"),
                  MetricsEmit(trace[p]))
        /\ At(trace[p], "log_requests", "start_time") # {} =>
              At(trace[p], "add_influxdb_middleware", "start_time") # {}
        /\ MetricsEmit(trace[p]) # {} =>
              At(trace[p], "log_requests", "log_line") # {}
        /\ Done(p) /\ resp[p].status # 500 =>
              /\ Cardinality(At(trace[p], "log_requests", "log_line")) = 1
              /\ Cardinality(MetricsEmit(trace[p])) = 1

\* C10's case: a request answered after both stages started and emitted.
C10_Witness ==
    \E p \in Procs :
        /\ Done(p)
        /\ At(trace[p], "add_influxdb_middleware", "start_time") # {}
        /\ At(trace[p], "log_requests", "start_time") # {}
        /\ At(trace[p], "log_requests", "log_line") # {}
        /\ At(trace[p], "add_influxdb_middleware", "point") # {}

\* The journal positions at which slot p did `op` for its request.
Pos(p, op) ==
    { i \in 1..Len(journal) : journal[i].slot = p /\ journal[i].op = op }

\* T is what request r alone makes of the collection S.
Alone(r, S, T) ==
    CASE r.method = "POST" ->
            /\ Len(T) = Len(S) + 1
            /\ SubSeq(T, 1, Len(S)) = S
            /\ ItemIs(T[Len(T)], r.body)
      [] r.method = "PUT" ->
            /\ Matches(S, r.id) # {}
            /\ Len(T) = Len(S)
            /\ \A i \in 1..Len(S) :
                  IF i = Least(Matches(S, r.id))
                  THEN ItemIs(T[i], r.body)
                  ELSE T[i] = S[i]
      [] r.method = "DELETE" ->
            T = SelectSeq(S, LAMBDA t : t.id # r.id)
      [] OTHER -> FALSE

\* Slots p and q served mutating requests that both loaded todo.json before
\* either opened it for writing, both have answered, and q wrote last.
Raced(p, q) ==
    /\ p # q
    /\ Done(p) /\ Done(q)
    /\ Pos(p, "write") # {} /\ Pos(q, "write") # {}
    /\ Before(Pos(p, "load") \cup Pos(q, "load"),
              Pos(p, "open") \cup Pos(q, "open"))
    /\ Before(Pos(p, "write"), Pos(q, "write"))

\* C7: when two mutating requests both load before either saves, both are
\* answered 200 and todo.json ends as the collection of the request that
\* saved last alone, the other's change lost.
C7_LastSaveWins ==
    \A p, q \in Procs :
        Raced(p, q) =>
            /\ resp[p].status = 200 /\ resp[q].status = 200
            /\ file.state = "json"
            /\ Alone(req[q], load_result(pre[q]), file.todos)

\* C7 as the code has it: both are answered 200; todo.json ends as the
\* collection of the request that wrote last alone when that request opened
\* the file after the other had written, or wrote at least as many
\* characters as the other; when it opened the file before the other wrote
\* and wrote fewer characters, the other's tail stays behind its own and
\* todo.json no longer parses.
C7_LastSaveWinsOrCorrupts ==
    \A p, q \in Procs :
        Raced(p, q) =>
            /\ resp[p].status = 200 /\ resp[q].status = 200
            /\ pre[p] = pre[q]
            /\ IF \/ Before(Pos(p, "write"), Pos(q, "open"))
                  \/ json_dump_len(todos[q]) >= json_dump_len(todos[p])
               THEN /\ file.state = "json"
                    /\ Alone(req[q], load_result(pre[q]), file.todos)
                    /\ Alone(req[p], load_result(pre[p]), todos[p])
               ELSE file.state = "corrupt"

\* C7's case: two creates of different items raced on an empty store, both
\* were answered 200, and one item is stored.
C7_Witness ==
    \E p, q \in Procs :
        /\ Raced(p, q)
        /\ req[p].method = "POST" /\ req[q].method = "POST"
        /\ req[p].body # req[q].body
        /\ load_result(pre[q]) = <<>>
        /\ resp[p].status = 200 /\ resp[q].status = 200
        /\ file.state = "json" /\ Len(file.todos) = 1
        /\ ItemIs(file.todos[1], req[q].body)

====
